---- MODULE Spec2Model ----
(***************************************************************************)
(* s3flow: the reconciliation and bulk-transfer engine (s3_utils).         *)
(* Orchestrators sync_prefix, move_by_mask, copy_by_mask,                  *)
(* copy_common_and_addon_from_roots and download_by_mask over a two-bucket *)
(* object store and a local file system, and the CLI commands' endings.    *)
(* Strings are sequences of one-character strings.                         *)
(***************************************************************************)
EXTENDS Integers, Sequences, FiniteSets, TLC

\* ------------------------------------------------------------------ bounds
\* Largest number of objects the store holds when an invocation starts.
MaxObjects == 2
\* Largest number of HEAD requests that fail on one side of one deep compare.
MaxHeadFailures == 1
\* Keys per listing page in _copy_prefix's lazily consumed listing.
PageSize == 1

\* ------------------------------------------------------------------ strings
E == << >>
P_a == <<"a", "/">>
P_ab == <<"a", "b", "/">>
P_a_b == <<"a", "/", "b", "/">>
P_c == <<"c", "/">>
K_ax == <<"a", "/", "x">>
K_ay == <<"a", "/", "y">>
K_cx == <<"c", "/", "x">>
K_cy == <<"c", "/", "y">>
K_cz == <<"c", "/", "z">>
K_cw == <<"c", "/", "w">>
S_x == <<"x">>
P_s == <<"s", "/">>
P_r == <<"r", "/">>
P_m == <<"m", "/">>
P_d == <<"d", "/">>
P_s_a == <<"s", "/", "a", "/">>
K_sax == <<"s", "/", "a", "/", "x">>
K_say == <<"s", "/", "a", "/", "y">>
K_scx == <<"s", "/", "c", "/", "x">>
K_rax == <<"r", "/", "a", "/", "x">>
K_sz == <<"s", "/", "z">>

Buckets == {"B1", "B2"}
KeyUniverse == {K_ax, K_ay, K_cx, K_cy}
FolderKeyUniverse == {K_ax, K_ay, K_cy, K_cz, K_cw}
CcaKeyUniverse == {K_sax, K_say, K_scx, K_rax, K_sz}
Contents == {1, 2, 3}

\* ETag and ContentLength of a content: 1 and 2 share a size, 3 differs in both.
ETagOf(c) == c
SizeOf(c) == IF c = 3 THEN 2 ELSE 1

CharRank(c) ==
  CASE c = "/" -> 1
    [] c = "a" -> 2
    [] c = "b" -> 3
    [] c = "c" -> 4
    [] c = "d" -> 5
    [] c = "m" -> 6
    [] c = "r" -> 7
    [] c = "s" -> 8
    [] c = "w" -> 9
    [] c = "x" -> 10
    [] c = "y" -> 11
    [] OTHER -> 12

Min(a, b) == IF a <= b THEN a ELSE b
Max(a, b) == IF a >= b THEN a ELSE b

\* str.startswith / str.endswith
StartsWith(s, p) == Len(p) <= Len(s) /\ SubSeq(s, 1, Len(p)) = p
EndsWith(s, x) == Len(x) <= Len(s) /\ SubSeq(s, Len(s) - Len(x) + 1, Len(s)) = x

\* s[n:]
DropFirst(s, n) == SubSeq(s, Min(n, Len(s)) + 1, Len(s))

\* str.rstrip("/") and str.lstrip("/")
RECURSIVE RStripSlash(_)
RStripSlash(s) ==
  IF s # << >> /\ s[Len(s)] = "/" THEN RStripSlash(SubSeq(s, 1, Len(s) - 1)) ELSE s

RECURSIVE LStripSlash(_)
LStripSlash(s) ==
  IF s # << >> /\ s[1] = "/" THEN LStripSlash(Tail(s)) ELSE s

\* Python's ordering of str: lexicographic by code point.
RECURSIVE StrLess(_, _)
StrLess(a, b) ==
  IF b = << >> THEN FALSE
  ELSE IF a = << >> THEN TRUE
  ELSE IF a[1] # b[1] THEN CharRank(a[1]) < CharRank(b[1])
  ELSE StrLess(Tail(a), Tail(b))

\* sorted(set of str)
RECURSIVE SortedKeys(_)
SortedKeys(S) ==
  IF S = {} THEN << >>
  ELSE LET m == CHOOSE x \in S : \A y \in S \ {x} : StrLess(x, y)
       IN <<m>> \o SortedKeys(S \ {m})

\* Python's ordering of (src, dst) tuples: by first element, then second.
PairLess(p, q) == StrLess(p[1], q[1]) \/ (p[1] = q[1] /\ StrLess(p[2], q[2]))

\* list.sort() of a list of distinct (src, dst) tuples
RECURSIVE SortedPairs(_)
SortedPairs(S) ==
  IF S = {} THEN << >>
  ELSE LET m == CHOOSE x \in S : \A y \in S \ {x} : PairLess(x, y)
       IN <<m>> \o SortedPairs(S \ {m})

Range(f) == {f[i] : i \in DOMAIN f}

\* All orderings of a finite set (iteration order of a Python set is unspecified).
Perms(S) == {f \in [1..Cardinality(S) -> S] : Range(f) = S}

\* ------------------------------------------------------------------ state
VARIABLES
  store,          \* bucket -> (key -> content): the object store
  op,             \* the orchestrator invoked
  args,           \* its arguments
  pc,             \* position of the calling (coordinating) thread
  src_keys,       \* listed source keys
  dst_keys,       \* listed destination keys
  src_head,       \* _head_map of the source side (full key -> <<etag, size>>)
  dst_head,       \* _head_map of the destination side
  to_copy_rel,    \* sync: relative keys to copy
  pairs,          \* the (src, dst) pairs planned for copying
  futs,           \* pair -> state of its future in the worker pool
  drained,        \* futures whose result the coordinating thread has taken
  copied,         \* result list of the copy phase
  errors_copy,    \* error strings of the copy phase
  to_delete,      \* key list handed to the delete loop
  di,             \* number of keys of to_delete already sent in batches
  deleted,        \* keys reported deleted
  errors_delete,  \* error strings of the delete phase
  resp,           \* outcome of the last delete_objects call: its response or its exception
  result,         \* what the call returned or raised
  listCalls,      \* listing requests sent to the store by this invocation
  headCalls,      \* HEAD requests sent to the store by this invocation
  copyCalls,      \* copy requests sent to the store by this invocation: pair -> how often
  deleteCalls,    \* batch-delete requests sent to the store by this invocation
  run,            \* 1 for the first invocation, 2 for its repetition
  prev,           \* what the first invocation left behind
  variant,        \* which of core.py's two list_prefixes definitions is bound
  store0,         \* the store when this invocation started
  src_names,      \* child names under the source root
  ref_names,      \* child names under the reference root
  todo,           \* the children still to copy: <<"common" | "addon", name>>
  summary,        \* child -> result of its _copy_prefix
  cursor,         \* _copy_prefix's listing: pages fetched and the last key seen
  oks,            \* _copy_prefix's success counter
  errs,           \* _copy_prefix's error counter
  files,          \* the local file system: path -> content
  exit_status     \* the status a CLI command ended with

planVars == <<src_keys, dst_keys, src_head, dst_head, to_copy_rel, pairs>>
poolVars == <<futs, drained, copied, errors_copy>>
delVars == <<to_delete, di, deleted, errors_delete, resp>>
callVars == <<listCalls, headCalls, copyCalls, deleteCalls>>
runVars == <<op, args, run, prev, variant, store0, files, exit_status>>
ccaVars == <<src_names, ref_names, todo, summary, cursor>>
cntVars == <<oks, errs>>
vars == <<store, pc, result, planVars, poolVars, delVars, callVars, runVars, ccaVars, cntVars>>

NoResult == [kind |-> "none"]
NoPrev == [kind |-> "none"]
NoResp == [kind |-> "none"]
\* (None, None): the metadata of an object whose HEAD failed
NoMeta == <<0, 0>>

\* ------------------------------------------------------------------ store
Keys(b) == DOMAIN store[b]

\* One object added to (or overwritten in) a bucket.
PutObject(st, b, k, c) ==
  [st EXCEPT ![b] = [x \in (DOMAIN st[b]) \cup {k} |-> IF x = k THEN c ELSE st[b][x]]]

\* A set of keys removed from a bucket.
RemoveObjects(st, b, ks) ==
  [st EXCEPT ![b] = [x \in (DOMAIN st[b]) \ ks |-> st[b][x]]]

\* core.list_objects: the keys of the bucket under prefix that end with suffix.
list_objects(b, prefix, suffix) ==
  {k \in Keys(b) : StartsWith(k, prefix) /\ EndsWith(k, suffix)}

\* One character more than the prefix is cut off.
relativize_keys_greedy(keys, prefix) ==
  {IF prefix # << >> /\ StartsWith(k, prefix) THEN DropFirst(k, Len(prefix) + 1) ELSE k : k \in keys}

\* sync._relativize and utils.relativize_keys: key[len(prefix):] for a key that starts
\* with a non-empty prefix, else the key.
relativize_keys(keys, prefix) ==
  {IF prefix # << >> /\ StartsWith(k, prefix) THEN DropFirst(k, Len(prefix)) ELSE k : k \in keys}

\* (prefix + r if prefix else r)
Reprefix(prefix, r) == IF prefix # << >> THEN prefix \o r ELSE r

\* (etag, size) as head_object reports it
MetaOf(b, k) == <<ETagOf(store[b][k]), SizeOf(store[b][k])>>

\* ------------------------------------------------------------------ worker pool
FutDone(p) == futs[p] \in {"ok", "skipped", "S3Error", "TypeError"}
Running == {p \in DOMAIN futs : futs[p] \in {"running", "writing"}}

\* copy.copy_object's parameters, and the keyword arguments its callers pass
CopyObjectParams == {"s3_client", "source_bucket", "source_key", "target_bucket", "target_key"}
SyncCopyKwargs == {}
MoveDoKwargs == {"extra_args"}
CopyPrefixKwargs == {}
CopyKwargs(o) ==
  CASE o = "move" -> MoveDoKwargs
    [] o = "sync" -> SyncCopyKwargs
    [] OTHER -> CopyPrefixKwargs

\* The callee takes whatever keyword arguments it is given.
CallBindsAnything(kwargs, params) == TRUE

\* A Python call binds its keyword arguments only to parameters the callee declares.
CallBinds(kwargs, params) == kwargs \subseteq params

\* The pool starts a task whenever one is submitted.
PoolUnbounded == TRUE

\* ThreadPoolExecutor(max_workers=max_workers): a worker is free.
PoolHasIdleWorker == Cardinality(Running) < args.max_workers

\* ThreadPoolExecutor: a worker takes a submitted task while fewer than max_workers run.
WorkerStart(p) ==
  /\ pc \in {"copy_wait", "cp_list", "cp_abort", "dl_wait"}
  /\ futs[p] = "pending"
  /\ PoolHasIdleWorker
  /\ futs' = [futs EXCEPT ![p] = "running"]
  /\ UNCHANGED <<store, pc, result, planVars, drained, copied, errors_copy, delVars, callVars, runVars, ccaVars, cntVars>>

\* The buckets a copy reads and writes (copy_common_and_addon_from_roots has one bucket).
CopySrcBucket == IF op = "cca" THEN args.bucket ELSE args.source_bucket
CopyDstBucket == IF op = "cca" THEN args.bucket ELSE args.target_bucket

\* One more copy request for pair p in the record of requests.
Called(calls, p) ==
  [q \in (DOMAIN calls) \cup {p} |->
     IF q \in DOMAIN calls THEN (IF q = p THEN calls[q] + 1 ELSE calls[q]) ELSE 1]

\* The worker itself appends the failure to the errors list.
WorkerCopyRecords(p) ==
  /\ futs[p] = "running"
  /\ IF ~CallBinds(CopyKwargs(op), CopyObjectParams)
     THEN /\ futs' = [futs EXCEPT ![p] = "TypeError"]
          /\ errors_copy' = Append(errors_copy, "TypeError")
          /\ UNCHANGED <<store, copyCalls>>
     ELSE /\ copyCalls' = Called(copyCalls, p)
          /\ \/ /\ p[1] \in Keys(CopySrcBucket)
                /\ store' = PutObject(store, CopyDstBucket, p[2], store[CopySrcBucket][p[1]])
                /\ futs' = [futs EXCEPT ![p] = "ok"]
                /\ UNCHANGED errors_copy
             \/ /\ futs' = [futs EXCEPT ![p] = "S3Error"]
                /\ errors_copy' = Append(errors_copy, "S3Error")
                /\ UNCHANGED store
  /\ UNCHANGED <<pc, result, planVars, drained, copied, delVars, listCalls, headCalls, deleteCalls, runVars, ccaVars, cntVars>>

\* The worker's call of copy_object: one server-side copy, or the exception it raises.
WorkerCopy(p) ==
  /\ futs[p] = "running"
  /\ IF ~CallBinds(CopyKwargs(op), CopyObjectParams)
     THEN /\ futs' = [futs EXCEPT ![p] = "TypeError"]
          /\ UNCHANGED <<store, copyCalls>>
     ELSE /\ copyCalls' = Called(copyCalls, p)
          /\ \/ /\ p[1] \in Keys(CopySrcBucket)
                /\ store' = PutObject(store, CopyDstBucket, p[2], store[CopySrcBucket][p[1]])
                /\ futs' = [futs EXCEPT ![p] = "ok"]
             \/ /\ futs' = [futs EXCEPT ![p] = "S3Error"]
                /\ UNCHANGED store
  /\ UNCHANGED <<pc, result, planVars, drained, copied, errors_copy, delVars, listCalls, headCalls, deleteCalls, runVars, ccaVars, cntVars>>

\* as_completed: the coordinating thread takes one finished future's outcome.
\* _parallel_copy appends the pair or the error string, sync_prefix keeps only the error
\* string, _copy_prefix counts.
Drain(p) ==
  /\ pc = "copy_wait"
  /\ p \notin drained
  /\ FutDone(p)
  /\ drained' = drained \cup {p}
  /\ copied' = IF futs[p] = "ok" /\ op = "move" THEN Append(copied, p) ELSE copied
  /\ errors_copy' = IF futs[p] # "ok" /\ op \in {"move", "sync"}
                     THEN Append(errors_copy, futs[p]) ELSE errors_copy
  /\ oks' = IF futs[p] = "ok" /\ op = "cca" THEN oks + 1 ELSE oks
  /\ errs' = IF futs[p] # "ok" /\ op = "cca" THEN errs + 1 ELSE errs
  /\ UNCHANGED <<store, pc, result, planVars, futs, delVars, callVars, runVars, ccaVars>>

\* The coordinating thread stops waiting after the first finished future.
PoolDrainedEarly == drained # {} \/ DOMAIN futs = {}

\* The for-loop over as_completed ends when every submitted future was yielded.
PoolDrained == drained = DOMAIN futs

\* raise: the exception leaves the orchestrator.
Raised(exc) == [kind |-> "raise", exc |-> exc]

\* The dry-run flag is not honoured.
DryRunIgnored(a) == FALSE

\* if dry_run: the branch that plans instead of calling the store.
DryRun(a) == a.dry_run

\* Every source key is copied, whatever the destination holds.
NameDiffAll(s, d) == s

\* to_copy_rel = src_rel - dst_rel
NameDiff(s, d) == s \ d

\* extras_rel = dst_rel - src_rel
ExtrasRel(s, d) == d \ s

\* ------------------------------------------------------------------ sync_prefix
\* A guard that refuses only equal prefixes.
SyncGuardEqualOnly(a) ==
  a.source_bucket = a.target_bucket /\ RStripSlash(a.prefix) = RStripSlash(a.prefix_dst)

\* The self-sync guard: same bucket and prefixes that overlap after rstrip("/").
SyncGuardRejects(a) ==
  LET s == RStripSlash(a.prefix)
      d == RStripSlash(a.prefix_dst)
  IN a.source_bucket = a.target_bucket /\ (s = d \/ StartsWith(s, d) \/ StartsWith(d, s))

SyncGuard ==
  /\ op = "sync" /\ pc = "start"
  /\ IF SyncGuardRejects(args)
     THEN pc' = "raised" /\ result' = Raised("ValueError")
     ELSE pc' = "list_src" /\ UNCHANGED result
  /\ UNCHANGED <<store, planVars, poolVars, delVars, callVars, runVars, ccaVars, cntVars>>

\* set(list_objects(source_bucket, prefix_src)): every page, or the error of one.
SyncListSrc ==
  /\ op = "sync" /\ pc = "list_src"
  /\ listCalls' = listCalls + 1
  /\ \/ /\ src_keys' = list_objects(args.source_bucket, args.prefix, E)
        /\ pc' = "list_dst"
        /\ UNCHANGED result
     \/ /\ pc' = "raised" /\ result' = Raised("ListError")
        /\ UNCHANGED src_keys
  /\ UNCHANGED <<store, dst_keys, src_head, dst_head, to_copy_rel, pairs, poolVars, delVars,
                 headCalls, copyCalls, deleteCalls, runVars, ccaVars, cntVars>>

SyncListDst ==
  /\ op = "sync" /\ pc = "list_dst"
  /\ listCalls' = listCalls + 1
  /\ \/ /\ dst_keys' = list_objects(args.target_bucket, args.prefix_dst, E)
        /\ pc' = "compare"
        /\ UNCHANGED result
     \/ /\ pc' = "raised" /\ result' = Raised("ListError")
        /\ UNCHANGED dst_keys
  /\ UNCHANGED <<store, src_keys, src_head, dst_head, to_copy_rel, pairs, poolVars, delVars,
                 headCalls, copyCalls, deleteCalls, runVars, ccaVars, cntVars>>

src_rel == relativize_keys(src_keys, args.prefix)
dst_rel == relativize_keys(dst_keys, args.prefix_dst)

\* _head_map: (etag, size) of each key, (None, None) for a key whose HEAD raised ClientError.
head_map(b, keys, failing) ==
  [k \in keys |-> IF k \in failing \/ k \notin Keys(b) THEN NoMeta ELSE MetaOf(b, k)]

\* Metadata that could not be fetched always counts as a difference.
DeepChangedMissingDiffers(mode, common, sh, dh, ps, pd) ==
  {r \in common :
     LET s_meta == sh[Reprefix(ps, r)]
         d_meta == dh[Reprefix(pd, r)]
     IN \/ s_meta = NoMeta \/ d_meta = NoMeta
        \/ IF mode = "etag" THEN s_meta[1] # d_meta[1] ELSE s_meta[2] # d_meta[2]}

\* The keys of common_rel whose compared field differs between the two head maps.
DeepChanged(mode, common, sh, dh, ps, pd) ==
  {r \in common :
     LET s_meta == sh[Reprefix(ps, r)]
         d_meta == dh[Reprefix(pd, r)]
     IN IF mode = "etag" THEN s_meta[1] # d_meta[1] ELSE s_meta[2] # d_meta[2]}

\* to_copy_rel = src_rel - dst_rel, then the optional deep compare of the common keys.
SyncCompare ==
  /\ op = "sync" /\ pc = "compare"
  /\ LET common == src_rel \cap dst_rel
         src_full == {Reprefix(args.prefix, r) : r \in common}
         dst_full == {Reprefix(args.prefix_dst, r) : r \in common}
     IN IF args.compare_mode \in {"etag", "size"} /\ common # {}
        THEN /\ headCalls' = headCalls + Cardinality(src_full) + Cardinality(dst_full)
             /\ \/ \E sf \in SUBSET src_full, df \in SUBSET dst_full :
                     /\ Cardinality(sf) <= MaxHeadFailures
                     /\ Cardinality(df) <= MaxHeadFailures
                     /\ src_head' = head_map(args.source_bucket, src_full, sf)
                     /\ dst_head' = head_map(args.target_bucket, dst_full, df)
                     /\ to_copy_rel' = NameDiff(src_rel, dst_rel) \cup
                          DeepChanged(args.compare_mode, common,
                                      head_map(args.source_bucket, src_full, sf),
                                      head_map(args.target_bucket, dst_full, df),
                                      args.prefix, args.prefix_dst)
                     /\ pc' = "copy"
                     /\ UNCHANGED result
                \/ /\ pc' = "raised" /\ result' = Raised("HeadError")
                   /\ UNCHANGED <<src_head, dst_head, to_copy_rel>>
        ELSE /\ to_copy_rel' = NameDiff(src_rel, dst_rel)
             /\ pc' = "copy"
             /\ UNCHANGED <<src_head, dst_head, headCalls, result>>
  /\ UNCHANGED <<store, src_keys, dst_keys, pairs, poolVars, delVars,
                 listCalls, copyCalls, deleteCalls, runVars, ccaVars, cntVars>>

\* The destination key loses its prefix.
SyncPairUnprefixed(r) == <<Reprefix(args.prefix, r), r>>

\* The (src_key, dst_key) of a relative key.
SyncPair(r) == <<Reprefix(args.prefix, r), Reprefix(args.prefix_dst, r)>>

\* The copy phase: planned pairs in dry-run, one submitted future per relative key otherwise.
SyncCopy ==
  /\ op = "sync" /\ pc = "copy"
  /\ IF to_copy_rel = {}
     THEN pc' = "delete" /\ UNCHANGED <<pairs, futs, copied>>
     ELSE IF DryRun(args)
     THEN /\ copied' = [i \in 1..Cardinality(to_copy_rel) |-> SyncPair(SortedKeys(to_copy_rel)[i])]
          /\ pc' = "delete"
          /\ UNCHANGED <<pairs, futs>>
     ELSE /\ pairs' = {SyncPair(r) : r \in to_copy_rel}
          /\ futs' = [p \in {SyncPair(r) : r \in to_copy_rel} |-> "pending"]
          /\ pc' = "copy_wait"
          /\ UNCHANGED copied
  /\ UNCHANGED <<store, result, src_keys, dst_keys, src_head, dst_head, to_copy_rel,
                 drained, errors_copy, delVars, callVars, runVars, ccaVars, cntVars>>

\* The planned keys in descending order.
SyncCopiedDescending(rel) ==
  [i \in 1..Cardinality(rel) |-> SortedKeys(rel)[Cardinality(rel) + 1 - i]]

\* copied = sorted(list(to_copy_rel))
SyncCopied(rel) == SortedKeys(rel)

\* The with-block ends: copied = sorted(list(to_copy_rel)).
SyncJoin ==
  /\ op = "sync" /\ pc = "copy_wait"
  /\ PoolDrained
  /\ copied' = SyncCopied(to_copy_rel)
  /\ pc' = "delete"
  /\ UNCHANGED <<store, result, planVars, futs, drained, errors_copy, delVars, callVars, runVars, ccaVars, cntVars>>

\* Extras are deleted whether or not the caller asked for it.
DeleteExtraAlways(a) == TRUE

\* if delete_extra:
DeleteExtra(a) == a.delete_extra

\* The delete phase: extras_rel = dst_rel - src_rel when delete_extra is set.
SyncDelete ==
  /\ op = "sync" /\ pc = "delete"
  /\ LET extras_rel == ExtrasRel(src_rel, dst_rel)
     IN IF DeleteExtra(args) /\ extras_rel # {}
        THEN IF DryRun(args)
             THEN /\ deleted' = [i \in 1..Cardinality(extras_rel) |->
                                   Reprefix(args.prefix_dst, SortedKeys(extras_rel)[i])]
                  /\ pc' = "return"
                  /\ UNCHANGED to_delete
             ELSE /\ \E order \in Perms(extras_rel) :
                       to_delete' = [i \in DOMAIN order |-> Reprefix(args.prefix_dst, order[i])]
                  /\ pc' = "deleting"
                  /\ UNCHANGED deleted
        ELSE pc' = "return" /\ UNCHANGED <<to_delete, deleted>>
  /\ UNCHANGED <<store, result, planVars, poolVars, di, errors_delete, resp, callVars, runVars, ccaVars, cntVars>>

\* ------------------------------------------------------------------ delete batches
\* The hard limit of keys per DeleteObjects request that move_by_mask clamps to.
DeleteLimit == 1000

\* Keys per batch: move clamps delete_batch_size into 1..1000, sync uses it as given.
BatchSize ==
  IF op = "move" THEN Min(Max(args.delete_batch_size, 1), DeleteLimit)
  ELSE args.delete_batch_size

DeleteBucket == IF op = "move" THEN args.source_bucket ELSE args.target_bucket

\* Every batch holds a single key.
DeleteChunkOne == SubSeq(to_delete, di + 1, di + 1)

\* The next chunk of the key list.
DeleteChunk == SubSeq(to_delete, di + 1, Min(di + BatchSize, Len(to_delete)))

\* The per-key error of a batch-delete response.
BackendError(k) == [Key |-> k, Code |-> "AccessDenied", Message |-> "Denied"]

\* The errors_delete entry made from one per-key error of the response.
DeleteErrorEntry(e) ==
  IF op = "move" THEN <<e.Key, e.Code, e.Message>> ELSE <<e.Key, e.Message>>

\* The errors_delete entries made when the whole call raised exc.
DeleteRaiseEntries(chunk, exc) ==
  IF op = "move" THEN [i \in DOMAIN chunk |-> <<chunk[i], exc>>] ELSE <<(<<exc>>)>>

\* Whether the delete loop's except clause catches exc.
DeleteCatches(exc) == IF op = "move" THEN TRUE ELSE exc = "ClientError"

AfterBatch(n) == IF di + n >= Len(to_delete) THEN "return" ELSE "deleting"

\* One delete_objects call on the next chunk: a per-key response, or an exception.
DeleteBatch ==
  /\ op \in {"sync", "move"} /\ pc = "deleting"
  /\ di < Len(to_delete)
  /\ LET chunk == DeleteChunk
     IN /\ deleteCalls' = Append(deleteCalls, chunk)
        /\ di' = di + Len(chunk)
        /\ \/ \E D \in SUBSET Range(chunk) :
                /\ store' = RemoveObjects(store, DeleteBucket, D)
                /\ deleted' = deleted \o SelectSeq(chunk, LAMBDA k : k \in D)
                /\ errors_delete' = errors_delete \o
                     [i \in 1..Len(SelectSeq(chunk, LAMBDA k : k \notin D)) |->
                        DeleteErrorEntry(BackendError(SelectSeq(chunk, LAMBDA k : k \notin D)[i]))]
                /\ resp' = [kind |-> "response",
                            Deleted |-> SelectSeq(chunk, LAMBDA k : k \in D),
                            Errors |-> [i \in 1..Len(SelectSeq(chunk, LAMBDA k : k \notin D)) |->
                                          BackendError(SelectSeq(chunk, LAMBDA k : k \notin D)[i])]]
                /\ pc' = AfterBatch(Len(chunk))
                /\ UNCHANGED result
           \/ \E exc \in {"ClientError", "TransportError"} :
                /\ UNCHANGED <<store, deleted>>
                /\ resp' = [kind |-> "raise", exc |-> exc]
                /\ IF DeleteCatches(exc)
                   THEN /\ errors_delete' = errors_delete \o DeleteRaiseEntries(chunk, exc)
                        /\ pc' = AfterBatch(Len(chunk))
                        /\ UNCHANGED result
                   ELSE /\ pc' = "raised" /\ result' = Raised(exc)
                        /\ UNCHANGED errors_delete
  /\ UNCHANGED <<planVars, poolVars, to_delete, listCalls, headCalls, copyCalls, runVars, ccaVars, cntVars>>

\* sync_prefix's return value.
SyncReturn ==
  /\ op = "sync" /\ pc = "return"
  /\ result' = [kind |-> "return",
                copied |-> copied,
                deleted |-> deleted,
                errors_copy |-> errors_copy,
                errors_delete |-> errors_delete,
                stats |-> [src_total |-> Cardinality(src_keys),
                           dst_total |-> Cardinality(dst_keys),
                           to_copy |-> Cardinality(to_copy_rel),
                           to_delete |-> IF ~args.dry_run THEN Len(deleted)
                                         ELSE Cardinality(dst_rel \ src_rel),
                           compare_mode |-> args.compare_mode,
                           dry_run |-> args.dry_run]]
  /\ pc' = "done"
  /\ UNCHANGED <<store, planVars, poolVars, delVars, callVars, runVars, ccaVars, cntVars>>

\* ------------------------------------------------------------------ move_by_mask
\* The (src_key, dst_key) pairs of the listed keys.
MovePairs(keys, prefix, prefix_dst) ==
  {<<Reprefix(prefix, r), Reprefix(prefix_dst, r)>> : r \in relativize_keys(keys, prefix)}

\* Listing the source and forming the pairs.
MoveList ==
  /\ op = "move" /\ pc = "start"
  /\ listCalls' = listCalls + 1
  /\ \/ /\ src_keys' = list_objects(args.source_bucket, args.prefix, args.suffix)
        /\ pairs' = MovePairs(list_objects(args.source_bucket, args.prefix, args.suffix),
                              args.prefix, args.prefix_dst)
        /\ pc' = "copy"
        /\ UNCHANGED result
     \/ /\ pc' = "raised" /\ result' = Raised("ListError")
        /\ UNCHANGED <<src_keys, pairs>>
  /\ UNCHANGED <<store, dst_keys, src_head, dst_head, to_copy_rel, poolVars, delVars,
                 headCalls, copyCalls, deleteCalls, runVars, ccaVars, cntVars>>

MoveStats(dry) ==
  [source_bucket |-> args.source_bucket, target_bucket |-> args.target_bucket,
   prefix |-> args.prefix, prefix_dst |-> args.prefix_dst, suffix |-> args.suffix,
   total |-> Cardinality(pairs), dry_run |-> dry]

\* Dry-run returns the plan; otherwise every pair is submitted to the pool.
MoveCopy ==
  /\ op = "move" /\ pc = "copy"
  /\ IF DryRun(args)
     THEN /\ \E order \in Perms(pairs) :
               /\ copied' = order
               /\ deleted' = [i \in DOMAIN order |-> order[i][1]]
               /\ result' = [kind |-> "return",
                             moved |-> order,
                             errors_copy |-> << >>,
                             deleted_source |-> [i \in DOMAIN order |-> order[i][1]],
                             errors_delete |-> << >>,
                             stats |-> MoveStats(TRUE)]
          /\ pc' = "done"
          /\ UNCHANGED futs
     ELSE /\ futs' = [p \in pairs |-> "pending"]
          /\ pc' = "copy_wait"
          /\ UNCHANGED <<copied, deleted, result>>
  /\ UNCHANGED <<store, planVars, drained, errors_copy, to_delete, di, errors_delete, resp,
                 callVars, runVars, ccaVars, cntVars>>

\* Every planned source key is deleted, copied or not.
MoveToDeleteAll(copied_pairs, all_pairs) ==
  [i \in 1..Cardinality(all_pairs) |-> SortedPairs(all_pairs)[i][1]]

\* to_delete = [sk for (sk, dk) in copied_pairs]
MoveToDelete(copied_pairs, all_pairs) ==
  [i \in DOMAIN copied_pairs |-> copied_pairs[i][1]]

\* _parallel_copy returns (copied.sort(), errors); the delete loop gets its key list.
MoveJoin ==
  /\ op = "move" /\ pc = "copy_wait"
  /\ PoolDrained
  /\ copied' = SortedPairs(Range(copied))
  /\ to_delete' = MoveToDelete(SortedPairs(Range(copied)), pairs)
  /\ pc' = IF MoveToDelete(SortedPairs(Range(copied)), pairs) = << >> THEN "return" ELSE "deleting"
  /\ UNCHANGED <<store, result, planVars, futs, drained, errors_copy, di, deleted, errors_delete,
                 resp, callVars, runVars, ccaVars, cntVars>>

MoveReturn ==
  /\ op = "move" /\ pc = "return"
  /\ result' = [kind |-> "return",
                moved |-> copied,
                errors_copy |-> errors_copy,
                deleted_source |-> deleted,
                errors_delete |-> errors_delete,
                stats |-> MoveStats(FALSE)]
  /\ pc' = "done"
  /\ UNCHANGED <<store, planVars, poolVars, delVars, callVars, runVars, ccaVars, cntVars>>

\* ------------------------------------------------------------------ copy_by_mask
\* The source prefix is kept in the destination key.
CbmDstKeyKeepPrefix(key, prefix_src, prefix_dst) == prefix_dst \o key

\* The destination key copy_files_by_keys gives a listed key.
CbmDstKey(key, prefix_src, prefix_dst) ==
  LET src_key == IF prefix_src # << >> /\ StartsWith(key, prefix_src)
                 THEN DropFirst(key, Len(prefix_src)) ELSE key
  IN IF prefix_dst # << >> THEN prefix_dst \o src_key ELSE src_key

\* keys = list(list_objects(source_bucket, prefix, suffix)), in the store's listing order.
CbmList ==
  /\ op = "copy_by_mask" /\ pc = "start"
  /\ listCalls' = listCalls + 1
  /\ \/ /\ src_keys' = list_objects(args.source_bucket, args.prefix, args.suffix)
        /\ pc' = "cbm_copy"
        /\ UNCHANGED result
     \/ /\ pc' = "raised" /\ result' = Raised("ListError")
        /\ UNCHANGED src_keys
  /\ UNCHANGED <<store, dst_keys, src_head, dst_head, to_copy_rel, pairs, poolVars, delVars,
                 headCalls, copyCalls, deleteCalls, runVars, ccaVars, cntVars>>

\* copy_files_by_keys: one copy_object per key, in order; an exception leaves the loop.
CbmCopy ==
  /\ op = "copy_by_mask" /\ pc = "cbm_copy"
  /\ Len(copied) < Cardinality(src_keys)
  /\ LET key == SortedKeys(src_keys)[Len(copied) + 1]
         dst == CbmDstKey(key, args.prefix, args.prefix_dst)
     IN /\ copyCalls' = Called(copyCalls, <<key, dst>>)
        /\ \/ /\ key \in Keys(args.source_bucket)
              /\ store' = PutObject(store, args.target_bucket, dst, store[args.source_bucket][key])
              /\ copied' = Append(copied, key)
              /\ UNCHANGED <<pc, result>>
           \/ /\ pc' = "raised" /\ result' = Raised("S3Error")
              /\ UNCHANGED <<store, copied>>
  /\ UNCHANGED <<planVars, futs, drained, errors_copy, delVars, listCalls, headCalls, deleteCalls,
                 runVars, ccaVars, cntVars>>

\* return keys
CbmReturn ==
  /\ op = "copy_by_mask" /\ pc = "cbm_copy"
  /\ Len(copied) = Cardinality(src_keys)
  /\ result' = [kind |-> "return", keys |-> SortedKeys(src_keys)]
  /\ pc' = "done"
  /\ UNCHANGED <<store, planVars, poolVars, delVars, callVars, runVars, ccaVars, cntVars>>

\* ------------------------------------------------------------------ list_prefixes
\* rel.split("/")[0]
RECURSIVE FirstSegment(_)
FirstSegment(s) ==
  IF s = << >> \/ s[1] = "/" THEN << >> ELSE <<s[1]>> \o FirstSegment(Tail(s))

HasSlash(s) == \E i \in DOMAIN s : s[i] = "/"

\* str.strip("/")
StripSlash(s) == LStripSlash(RStripSlash(s))

\* list_prefixes (depth 1) that scans the object keys under root_prefix.
list_prefixes_scan(b, root) ==
  {FirstSegment(LStripSlash(DropFirst(k, Len(root)))) :
     k \in {k \in list_objects(b, root, E) : LStripSlash(DropFirst(k, Len(root))) # << >>}}

\* The CommonPrefixes of a delimiter listing: root plus the text up to the first "/" after it.
CommonPrefixes(b, root) ==
  {root \o FirstSegment(DropFirst(k, Len(root))) \o <<"/">> :
     k \in {k \in Keys(b) : StartsWith(k, root) /\ HasSlash(DropFirst(k, Len(root)))}}

\* list_prefixes (depth 1) that asks the store for CommonPrefixes with Delimiter="/".
list_prefixes_delimiter(b, root) ==
  {FirstSegment(StripSlash(DropFirst(cp, Len(root)))) :
     cp \in {cp \in CommonPrefixes(b, root) : StripSlash(DropFirst(cp, Len(root))) # << >>}}

\* list_prefix_names, as the bound definition of list_prefixes computes it.
list_prefix_names(b, root) ==
  IF variant = "scan" THEN list_prefixes_scan(b, root) ELSE list_prefixes_delimiter(b, root)

\* ------------------------------------------------------------------ copy_common_and_addon_from_roots
\* Every child of the source root is also treated as an addon.
CcaTodoAddonAll(sn, rn) ==
  [i \in 1..Cardinality(sn \cap rn) |-> <<"common", SortedKeys(sn \cap rn)[i]>>] \o
  [i \in 1..Cardinality(sn) |-> <<"addon", SortedKeys(sn)[i]>>]

\* The children in processing order: sorted common names, then sorted addon names.
CcaTodo(sn, rn) ==
  [i \in 1..Cardinality(sn \cap rn) |-> <<"common", SortedKeys(sn \cap rn)[i]>>] \o
  [i \in 1..Cardinality(sn \ rn) |-> <<"addon", SortedKeys(sn \ rn)[i]>>]

CcaListSrc ==
  /\ op = "cca" /\ pc = "start"
  /\ listCalls' = listCalls + 1
  /\ \/ /\ src_names' = list_prefix_names(args.bucket, args.src_root_prefix)
        /\ pc' = "cca_list_ref"
        /\ UNCHANGED result
     \/ /\ pc' = "raised" /\ result' = Raised("ListError")
        /\ UNCHANGED src_names
  /\ UNCHANGED <<store, planVars, poolVars, delVars, headCalls, copyCalls, deleteCalls, runVars,
                 ref_names, todo, summary, cursor, cntVars>>

CcaListRef ==
  /\ op = "cca" /\ pc = "cca_list_ref"
  /\ listCalls' = listCalls + 1
  /\ \/ /\ ref_names' = list_prefix_names(args.bucket, args.ref_root_prefix)
        /\ todo' = CcaTodo(src_names, list_prefix_names(args.bucket, args.ref_root_prefix))
        /\ pc' = "cp_guard"
        /\ UNCHANGED result
     \/ /\ pc' = "raised" /\ result' = Raised("ListError")
        /\ UNCHANGED <<ref_names, todo>>
  /\ UNCHANGED <<store, planVars, poolVars, delVars, headCalls, copyCalls, deleteCalls, runVars,
                 src_names, summary, cursor, cntVars>>

\* The prefixes _copy_prefix gets for the child at the head of todo.
CpSrcPrefix == args.src_root_prefix \o todo[1][2] \o <<"/">>
CpDstPrefix ==
  (IF todo[1][1] = "common" THEN args.common_dst_root_prefix ELSE args.addon_dst_root_prefix)
    \o todo[1][2] \o <<"/">>

\* _copy_prefix's guard: same bucket and equal prefixes after rstrip("/").
CopyPrefixGuardRejects(sb, tb, src_prefix, dst_prefix) ==
  sb = tb /\ RStripSlash(src_prefix) = RStripSlash(dst_prefix)

\* dst_key_for
CpDstKey(key, src_prefix, dst_prefix) ==
  dst_prefix \o LStripSlash(DropFirst(key, Len(src_prefix)))

\* The loops over common and addon: the next child's _copy_prefix starts, or the summary
\* is returned.
CcaNextChild ==
  /\ op = "cca" /\ pc = "cp_guard"
  /\ IF todo = << >>
     THEN /\ result' = [kind |-> "return", summary |-> summary,
                        common_count |-> Cardinality(src_names \cap ref_names),
                        addon_count |-> Cardinality(src_names \ ref_names)]
          /\ pc' = "done"
     ELSE IF CopyPrefixGuardRejects(args.bucket, args.bucket, CpSrcPrefix, CpDstPrefix)
     THEN pc' = "raised" /\ result' = Raised("ValueError")
     ELSE pc' = "cp_list" /\ UNCHANGED result
  /\ UNCHANGED <<store, planVars, poolVars, delVars, callVars, runVars, ccaVars, cntVars>>

\* _copy_prefix has requested no page yet.
NoCursor == [pages |-> 0, last |-> E, more |-> TRUE]

\* The keys a page request returns: the next PageSize keys under the prefix after the cursor.
PageKeys(b, src_prefix, cur) ==
  LET avail == {k \in list_objects(b, src_prefix, E) : cur.pages = 0 \/ StrLess(cur.last, k)}
  IN SubSeq(SortedKeys(avail), 1, Min(PageSize, Cardinality(avail)))

PageTruncated(b, src_prefix, cur) ==
  Cardinality({k \in list_objects(b, src_prefix, E) : cur.pages = 0 \/ StrLess(cur.last, k)})
    > PageSize

\* _copy_prefix's submit loop: one page of the listing is fetched and its keys submitted,
\* or the page request fails inside the with-block.
CpListPage ==
  /\ op = "cca" /\ pc = "cp_list"
  /\ listCalls' = listCalls + 1
  /\ \/ LET page == PageKeys(args.bucket, CpSrcPrefix, cursor)
            more == PageTruncated(args.bucket, CpSrcPrefix, cursor)
            new == {<<page[i], CpDstKey(page[i], CpSrcPrefix, CpDstPrefix)>> : i \in DOMAIN page}
        IN /\ futs' = [q \in (DOMAIN futs) \cup new |-> IF q \in DOMAIN futs THEN futs[q] ELSE "pending"]
           /\ cursor' = [pages |-> cursor.pages + 1,
                         last |-> IF page = << >> THEN cursor.last ELSE page[Len(page)],
                         more |-> more]
           /\ pc' = IF more THEN "cp_list" ELSE "copy_wait"
     \/ /\ pc' = "cp_abort"
        /\ UNCHANGED <<futs, cursor>>
  /\ UNCHANGED <<store, result, planVars, drained, copied, errors_copy, delVars,
                 headCalls, copyCalls, deleteCalls, runVars, src_names, ref_names, todo, summary,
                 cntVars>>

\* The with-block's exit on the listing error: the pool is shut down waiting for every
\* submitted copy, then the exception leaves copy_common_and_addon_from_roots.
CpAbort ==
  /\ op = "cca" /\ pc = "cp_abort"
  /\ \A q \in DOMAIN futs : FutDone(q)
  /\ pc' = "raised" /\ result' = Raised("ListError")
  /\ UNCHANGED <<store, planVars, poolVars, delVars, callVars, runVars, ccaVars, cntVars>>

\* _copy_prefix returns {"copied": oks, "errors": errs}; the caller stores it under the child.
CpJoin ==
  /\ op = "cca" /\ pc = "copy_wait"
  /\ PoolDrained
  /\ summary' = [c \in (DOMAIN summary) \cup {todo[1]} |->
                   IF c = todo[1] THEN [copied |-> oks, errors |-> errs] ELSE summary[c]]
  /\ todo' = Tail(todo)
  /\ futs' = << >> /\ drained' = {}
  /\ oks' = 0 /\ errs' = 0
  /\ cursor' = NoCursor
  /\ pc' = "cp_guard"
  /\ UNCHANGED <<store, result, planVars, copied, errors_copy, delVars, callVars, runVars,
                 src_names, ref_names>>

\* ------------------------------------------------------------------ invocations
\* Where an invocation reads and writes: source bucket and prefix, target bucket and prefix.
Loc(sb, ps, tb, pd) == [sb |-> sb, ps |-> ps, tb |-> tb, pd |-> pd]
Locations ==
  {Loc("B1", P_a, "B1", P_c), Loc("B1", E, "B2", E), Loc("B1", P_a, "B1", P_a_b),
   Loc("B1", P_a, "B1", P_ab), Loc("B1", E, "B1", E)}

\* The objects of one bucket, given the keys chosen on the source and destination side.
ObjectsOf(b, loc, Ks, Kd, cd) ==
  [k \in (IF b = loc.sb THEN Ks ELSE {}) \cup (IF b = loc.tb THEN Kd ELSE {}) |->
     IF b = loc.tb /\ k \in Kd THEN cd ELSE 1]

\* The stores an invocation at loc may start from: at most MaxObjects objects, each under
\* the source prefix of the source bucket or the destination prefix of the target bucket;
\* the destination side's objects hold content cd.
StoreStates(loc, cd) ==
  {[b \in Buckets |-> ObjectsOf(b, loc, KK[1], KK[2], cd)] :
     KK \in {KK \in (SUBSET {k \in KeyUniverse : StartsWith(k, loc.ps)}) \X
                    (SUBSET {k \in KeyUniverse : StartsWith(k, loc.pd)}) :
               Cardinality(KK[1]) + Cardinality(KK[2]) <= MaxObjects}}

\* (max_workers, delete_batch_size)
WorkerCounts == {1, 2}
Tuning == {<<1, 1>>, <<2, 2>>, <<1, DeleteLimit + 1>>}

SyncArgs(loc) ==
  {[source_bucket |-> loc.sb, target_bucket |-> loc.tb, prefix |-> loc.ps, prefix_dst |-> loc.pd,
    suffix |-> E, delete_extra |-> de, compare_mode |-> cm, dry_run |-> dr,
    delete_batch_size |-> tu[2], max_workers |-> tu[1]] :
     de \in BOOLEAN, cm \in {"name", "etag", "size"}, dr \in BOOLEAN, tu \in Tuning}

MoveArgs(loc) ==
  {[source_bucket |-> loc.sb, target_bucket |-> loc.tb, prefix |-> loc.ps, prefix_dst |-> loc.pd,
    suffix |-> sx, delete_extra |-> FALSE, compare_mode |-> "name", dry_run |-> dr,
    delete_batch_size |-> tu[2], max_workers |-> tu[1]] :
     sx \in {E, S_x}, dr \in BOOLEAN, tu \in Tuning}

\* The local state of an invocation that has not started.
Fresh ==
  /\ pc = "start"
  /\ result = NoResult
  /\ src_keys = {} /\ dst_keys = {}
  /\ src_head = << >> /\ dst_head = << >>
  /\ to_copy_rel = {} /\ pairs = {}
  /\ futs = << >> /\ drained = {}
  /\ copied = << >> /\ errors_copy = << >>
  /\ to_delete = << >> /\ di = 0
  /\ deleted = << >> /\ errors_delete = << >> /\ resp = NoResp
  /\ listCalls = 0 /\ headCalls = 0
  /\ copyCalls = << >> /\ deleteCalls = << >>
  /\ src_names = {} /\ ref_names = {}
  /\ todo = << >> /\ summary = << >>
  /\ cursor = NoCursor
  /\ oks = 0 /\ errs = 0
  /\ exit_status = 0

InitSync ==
  /\ op = "sync"
  /\ \E loc \in Locations :
       /\ args \in SyncArgs(loc)
       /\ \E cd \in (IF args.compare_mode = "name" THEN {1} ELSE Contents) :
            store \in StoreStates(loc, cd)
  /\ run = 1 /\ prev = NoPrev /\ variant = "scan" /\ store0 = store
  /\ files = << >>
  /\ Fresh

InitMove ==
  /\ op = "move"
  /\ \E loc \in Locations :
       /\ args \in MoveArgs(loc)
       /\ store \in StoreStates(loc, 1)
  /\ run = 1 /\ prev = NoPrev /\ variant = "scan" /\ store0 = store
  /\ files = << >>
  /\ Fresh

CbmArgs(loc) ==
  {[source_bucket |-> loc.sb, target_bucket |-> loc.tb, prefix |-> loc.ps, prefix_dst |-> loc.pd,
    suffix |-> sx] : sx \in {E, S_x}}

InitCbm ==
  /\ op = "copy_by_mask"
  /\ \E loc \in Locations :
       /\ args \in CbmArgs(loc)
       /\ store \in StoreStates(loc, 1)
  /\ run = 1 /\ prev = NoPrev /\ variant = "scan" /\ store0 = store
  /\ files = << >>
  /\ Fresh

\* Destination roots: apart from the source root, equal to it, nested in one of its children.
CcaArgs ==
  {[bucket |-> "B1", src_root_prefix |-> P_s, ref_root_prefix |-> P_r,
    common_dst_root_prefix |-> P_m, addon_dst_root_prefix |-> ad, max_workers |-> mw] :
     ad \in {P_d, P_s, P_s_a}, mw \in WorkerCounts}

\* At most MaxObjects objects under the source root; the reference root with or without
\* its object.
CcaStoreStates ==
  {[b \in Buckets |-> IF b = "B1" THEN [k \in KK[1] \cup KK[2] |-> 1] ELSE << >>] :
     KK \in {K \in SUBSET (CcaKeyUniverse \ {K_rax}) : Cardinality(K) <= MaxObjects} \X
            (SUBSET {K_rax})}

InitCca ==
  /\ op = "cca"
  /\ args \in CcaArgs
  /\ store \in CcaStoreStates
  /\ run = 1 /\ prev = NoPrev /\ variant \in {"scan", "delimiter"} /\ store0 = store
  /\ files = << >>
  /\ Fresh

\* No HEAD request of this invocation failed.
HeadsOk ==
  /\ \A k \in DOMAIN src_head : src_head[k] # NoMeta
  /\ \A k \in DOMAIN dst_head : dst_head[k] # NoMeta

\* The caller repeats a finished invocation for real with the same arguments:
\* after a dry run, or after a run that reported no error.
Rerun ==
  /\ op \in {"sync", "move"} /\ pc = "done" /\ run = 1
  /\ args.dry_run \/ (result.errors_copy = << >> /\ result.errors_delete = << >>)
  /\ run' = 2
  /\ prev' = [kind |-> "run", dry_run |-> args.dry_run, result |-> result,
               heads_ok |-> HeadsOk]
  /\ store0' = store
  /\ args' = [args EXCEPT !.dry_run = FALSE]
  /\ pc' = "start"
  /\ result' = NoResult
  /\ src_keys' = {} /\ dst_keys' = {}
  /\ src_head' = << >> /\ dst_head' = << >>
  /\ to_copy_rel' = {} /\ pairs' = {}
  /\ futs' = << >> /\ drained' = {}
  /\ copied' = << >> /\ errors_copy' = << >>
  /\ to_delete' = << >> /\ di' = 0
  /\ deleted' = << >> /\ errors_delete' = << >> /\ resp' = NoResp
  /\ listCalls' = 0 /\ headCalls' = 0
  /\ copyCalls' = << >> /\ deleteCalls' = << >>
  /\ UNCHANGED <<store, op, variant, ccaVars, cntVars, files, exit_status>>

\* ------------------------------------------------------------------ cli
\* cmd_sync ends after echoing the counts; an exception ends the process with status 1.
CmdSync ==
  /\ op = "sync" /\ pc \in {"done", "raised"}
  /\ exit_status' = IF pc = "raised" THEN 1 ELSE 0
  /\ pc' = "exited"
  /\ UNCHANGED <<store, result, planVars, poolVars, delVars, callVars, op, args, run, prev,
                 variant, store0, files, ccaVars, cntVars>>

\* cmd_move ends after echoing the counts.
CmdMove ==
  /\ op = "move" /\ pc \in {"done", "raised"}
  /\ exit_status' = IF pc = "raised" THEN 1 ELSE 0
  /\ pc' = "exited"
  /\ UNCHANGED <<store, result, planVars, poolVars, delVars, callVars, op, args, run, prev,
                 variant, store0, files, ccaVars, cntVars>>

\* cmd_download returns after a dry run, else raises typer.Exit(code=1) on errors.
CmdDownload ==
  /\ op = "download" /\ pc \in {"done", "raised"}
  /\ exit_status' = IF pc = "raised" THEN 1
                     ELSE IF DryRun(args) THEN 0
                     ELSE IF result.errors # << >> THEN 1 ELSE 0
  /\ pc' = "exited"
  /\ UNCHANGED <<store, result, planVars, poolVars, delVars, callVars, op, args, run, prev,
                 variant, store0, files, ccaVars, cntVars>>

PoolNext == \E p \in DOMAIN futs : WorkerStart(p) \/ WorkerCopy(p) \/ Drain(p)

NextSync ==
  \/ SyncGuard \/ SyncListSrc \/ SyncListDst \/ SyncCompare \/ SyncCopy \/ SyncJoin
  \/ SyncDelete \/ SyncReturn

NextMove == MoveList \/ MoveCopy \/ MoveJoin \/ MoveReturn

NextCbm == CbmList \/ CbmCopy \/ CbmReturn

NextCca == CcaListSrc \/ CcaListRef \/ CcaNextChild \/ CpListPage \/ CpAbort \/ CpJoin

Init == InitSync \/ InitMove \/ InitCbm \/ InitCca
Next ==
  \/ NextSync \/ NextMove \/ NextCbm \/ NextCca \/ PoolNext \/ DeleteBatch \/ Rerun
  \/ CmdSync \/ CmdMove
Spec == Init /\ [][Next]_vars

\* Invocations between two folders of one bucket over every population of the key
\* universe: copy phases with several copies followed by delete phases with several keys.
FolderLoc == Loc("B1", P_a, "B1", P_c)

FolderStoreStates ==
  {[b \in Buckets |-> IF b = "B1" THEN [k \in K |-> 1] ELSE << >>] : K \in SUBSET FolderKeyUniverse}

InitFolders ==
  /\ op \in {"sync", "move"}
  /\ args \in (IF op = "sync"
               THEN {a \in SyncArgs(FolderLoc) : a.compare_mode = "name" /\ ~a.dry_run}
               ELSE {a \in MoveArgs(FolderLoc) : ~a.dry_run})
  /\ store \in FolderStoreStates
  /\ run = 1 /\ prev = NoPrev /\ variant = "scan" /\ store0 = store
  /\ files = << >>
  /\ Fresh

NextFolders == NextSync \/ NextMove \/ PoolNext \/ DeleteBatch

SpecFolders == InitFolders /\ [][NextFolders]_vars

\* ------------------------------------------------------------------ compile_patterns
\* os.path.normcase: the identity on POSIX; on Windows it lowercases and turns / into \.
NtChar(c) ==
  CASE c = "/" -> "\\"
    [] c = "J" -> "j"
    [] c = "P" -> "p"
    [] c = "G" -> "g"
    [] OTHER -> c

normcase(s, platform) == IF platform = "nt" THEN [i \in DOMAIN s |-> NtChar(s[i])] ELSE s

\* fnmatch.fnmatchcase for patterns of literals, * and ?: the whole name must match.
RECURSIVE fnmatchcase(_, _)
fnmatchcase(name, pat) ==
  IF pat = << >> THEN name = << >>
  ELSE IF pat[1] = "*"
       THEN fnmatchcase(name, Tail(pat)) \/ (name # << >> /\ fnmatchcase(Tail(name), pat))
  ELSE IF pat[1] = "?"
       THEN name # << >> /\ fnmatchcase(Tail(name), Tail(pat))
  ELSE name # << >> /\ name[1] = pat[1] /\ fnmatchcase(Tail(name), Tail(pat))

\* fnmatch.fnmatch: both the name and the pattern go through normcase.
fnmatch(name, pat, platform) == fnmatchcase(normcase(name, platform), normcase(pat, platform))

\* An include match accepts the name before the excludes are looked at.
MatchIncludeFirst(name, inc, exc, platform) ==
  \/ \E i \in DOMAIN inc : fnmatch(name, inc[i], platform)
  \/ /\ ~\E i \in DOMAIN exc : fnmatch(name, exc[i], platform)
     /\ \E i \in DOMAIN inc : fnmatch(name, inc[i], platform)

\* compile_patterns._match
Match(name, inc, exc, platform) ==
  IF \E i \in DOMAIN exc : fnmatch(name, exc[i], platform)
  THEN FALSE
  ELSE \E i \in DOMAIN inc : fnmatch(name, inc[i], platform)

G_star == <<"*">>
G_jpg == <<"*", ".", "j", "p", "g">>
G_tmp == <<"t", "m", "p", "/", "*">>
N_tmp_x_jpg == <<"t", "m", "p", "/", "x", ".", "j", "p", "g">>

\* The include and exclude lists a caller passes: [], ['*'], ['*.jpg'], ['tmp/*'],
\* ['?.jpg'], ['*.jpg', 'a.png'], ['tmp/*', '*.jpg']; None is a list that was not given.
PatternLists ==
  {<< >>, <<G_star>>, <<G_jpg>>, <<G_tmp>>,
   <<(<<"?", ".", "j", "p", "g">>)>>,
   <<G_jpg, <<"a", ".", "p", "n", "g">>>>,
   <<G_tmp, G_jpg>>}
\* The names a matcher is applied to: "", tmp/x.jpg, x.jpg, a.png, tmp/a.png, x.JPG
Names ==
  {E, N_tmp_x_jpg,
   <<"x", ".", "j", "p", "g">>,
   <<"a", ".", "p", "n", "g">>,
   <<"t", "m", "p", "/", "a", ".", "p", "n", "g">>,
   <<"x", ".", "J", "P", "G">>}

PatternArgs ==
  {[includes_given |-> ig, includes |-> inc, excludes_given |-> eg, excludes |-> exc,
    name |-> n, platform |-> pf] :
     ig \in BOOLEAN, inc \in PatternLists, eg \in BOOLEAN, exc \in PatternLists,
     n \in Names, pf \in {"posix", "nt"}}

InitPatterns ==
  /\ op = "compile_patterns"
  /\ args \in {a \in PatternArgs : (~a.includes_given => a.includes = << >>)
                                    /\ (~a.excludes_given => a.excludes = << >>)}
  /\ store = [b \in Buckets |-> << >>]
  /\ run = 1 /\ prev = NoPrev /\ variant = "scan" /\ store0 = store
  /\ files = << >>
  /\ Fresh

\* inc = list(includes or []) or ["*"]; exc = list(excludes or []); return _match
CompilePatterns ==
  /\ op = "compile_patterns" /\ pc = "start"
  /\ result' = [kind |-> "matcher",
                inc |-> IF args.includes_given /\ args.includes # << >>
                        THEN args.includes ELSE <<G_star>>,
                exc |-> IF args.excludes_given THEN args.excludes ELSE << >>]
  /\ pc' = "compiled"
  /\ UNCHANGED <<store, planVars, poolVars, delVars, callVars, runVars, ccaVars, cntVars>>

\* The matcher applied to a name.
CallMatcher ==
  /\ op = "compile_patterns" /\ pc = "compiled"
  /\ result' = [kind |-> "return",
                value |-> Match(args.name, result.inc, result.exc, args.platform)]
  /\ pc' = "done"
  /\ UNCHANGED <<store, planVars, poolVars, delVars, callVars, runVars, ccaVars, cntVars>>

NextPatterns == CompilePatterns \/ CallMatcher

SpecPatterns == InitPatterns /\ [][NextPatterns]_vars

\* ------------------------------------------------------------------ download_by_mask
\* pathlib: the components of a path string; empty and "." components are dropped.
RECURSIVE PathParts(_)
PathParts(s) ==
  IF s = << >> THEN << >>
  ELSE IF s[1] = "/" THEN PathParts(Tail(s))
  ELSE LET seg == FirstSegment(s)
           rest == DropFirst(s, Len(seg))
       IN IF seg = <<".">> THEN PathParts(rest) ELSE <<seg>> \o PathParts(rest)

\* Path(root) / s: an absolute s replaces the root.
PathJoin(root, s) ==
  IF s # << >> /\ s[1] = "/"
  THEN [abs |-> TRUE, parts |-> PathParts(s)]
  ELSE [abs |-> root # << >> /\ root[1] = "/", parts |-> PathParts(root) \o PathParts(s)]

\* Path(s).name: the last component, "" when there is none.
PathName(s) == IF PathParts(s) = << >> THEN E ELSE PathParts(s)[Len(PathParts(s))]

\* dst_root / r when keep_structure, else dst_root / Path(r).name
DownloadDst(r, a) ==
  IF a.keep_structure THEN PathJoin(a.dst_root, r) ELSE PathJoin(a.dst_root, PathName(r))

\* The (key, local path) pairs of the listed keys that pass the matcher.
DownloadPairs(keys, a) ==
  {<<Reprefix(a.prefix, r), DownloadDst(r, a)>> : r \in relativize_keys(keys, a.prefix)}

\* matcher = compile_patterns(include, exclude) if (include or exclude) else always true
DownloadMatcher(k, a) ==
  \/ a.include = << >> /\ a.exclude = << >>
  \/ Match(k, IF a.include = << >> THEN <<G_star>> ELSE a.include, a.exclude, "posix")

\* Listing, filtering and planning; a dry run returns the plan.
DownloadList ==
  /\ op = "download" /\ pc = "start"
  /\ listCalls' = listCalls + 1
  /\ \/ LET keys == {k \in list_objects(args.bucket, args.prefix, args.suffix) :
                       DownloadMatcher(k, args)}
        IN /\ src_keys' = keys
           /\ pairs' = DownloadPairs(keys, args)
           /\ IF DryRun(args)
              THEN /\ result' = [kind |-> "return", downloaded |-> << >>, errors |-> << >>,
                                 total |-> Cardinality(DownloadPairs(keys, args)),
                                 planned |-> DownloadPairs(keys, args)]
                   /\ pc' = "done"
                   /\ UNCHANGED futs
              ELSE /\ futs' = [p \in DownloadPairs(keys, args) |-> "pending"]
                   /\ pc' = "dl_wait"
                   /\ UNCHANGED result
     \/ /\ pc' = "raised" /\ result' = Raised("ListError")
        /\ UNCHANGED <<src_keys, pairs, futs>>
  /\ UNCHANGED <<store, dst_keys, src_head, dst_head, to_copy_rel, drained, copied, errors_copy,
                 delVars, headCalls, copyCalls, deleteCalls, runVars, ccaVars, cntVars>>

\* _do up to the transfer: the skip_if check, then download_file's exists-and-not-overwrite
\* return.
WorkerDo(p) ==
  /\ op = "download" /\ futs[p] = "running"
  /\ LET exists == p[2] \in DOMAIN files
         checks == args.skip_if # "none" /\ exists
     IN /\ headCalls' = IF checks THEN headCalls + 1 ELSE headCalls
        /\ \/ /\ checks
              /\ futs' = [futs EXCEPT ![p] = "S3Error"]
           \/ futs' = [futs EXCEPT ![p] =
                         IF checks /\ SizeOf(files[p[2]]) = SizeOf(store[args.bucket][p[1]])
                         THEN "skipped"
                         ELSE IF exists /\ ~args.overwrite THEN "ok" ELSE "writing"]
  /\ UNCHANGED <<store, pc, result, planVars, drained, copied, errors_copy, delVars,
                 listCalls, copyCalls, deleteCalls, runVars, ccaVars, cntVars>>

\* s3_client.download_file writes the local file; preserve_mtime adds a HEAD request.
WorkerWrite(p) ==
  /\ op = "download" /\ futs[p] = "writing"
  /\ \/ /\ files' = [q \in (DOMAIN files) \cup {p[2]} |->
                       IF q = p[2] THEN store[args.bucket][p[1]] ELSE files[q]]
        /\ IF args.preserve_mtime
           THEN /\ headCalls' = headCalls + 1
                /\ \E out \in {"ok", "S3Error"} : futs' = [futs EXCEPT ![p] = out]
           ELSE /\ futs' = [futs EXCEPT ![p] = "ok"]
                /\ UNCHANGED headCalls
     \/ /\ futs' = [futs EXCEPT ![p] = "S3Error"]
        /\ UNCHANGED <<files, headCalls>>
  /\ UNCHANGED <<store, pc, result, planVars, drained, copied, errors_copy, delVars,
                 listCalls, copyCalls, deleteCalls, op, args, run, prev, variant, store0,
                 exit_status, ccaVars, cntVars>>

\* as_completed in _parallel_download: an item is appended unless the task returned None.
DownloadDrain(p) ==
  /\ op = "download" /\ pc = "dl_wait"
  /\ p \notin drained
  /\ FutDone(p)
  /\ drained' = drained \cup {p}
  /\ copied' = IF futs[p] = "ok" THEN Append(copied, p) ELSE copied
  /\ errors_copy' = IF futs[p] = "S3Error" THEN Append(errors_copy, futs[p]) ELSE errors_copy
  /\ UNCHANGED <<store, pc, result, planVars, futs, delVars, callVars, runVars, ccaVars, cntVars>>

\* downloaded.sort(key=lambda x: x[0]) and the result of download_by_mask.
DownloadReturn ==
  /\ op = "download" /\ pc = "dl_wait"
  /\ PoolDrained
  /\ LET keys == SortedKeys({p[1] : p \in Range(copied)})
     IN result' = [kind |-> "return",
                   downloaded |-> [i \in DOMAIN keys |->
                                     CHOOSE p \in Range(copied) : p[1] = keys[i]],
                   errors |-> errors_copy,
                   total |-> Cardinality(pairs),
                   planned |-> {}]
  /\ pc' = "done"
  /\ UNCHANGED <<store, planVars, poolVars, delVars, callVars, runVars, ccaVars, cntVars>>

\* ------------------------------------------------------------------ download invocations
\* Keys of one bucket: two folders, a nested folder, a key with an empty path component.
DownloadKeyUniverse == {K_ax, K_cx, P_a_b \o S_x, P_a \o <<"/", "x">>}

DownloadArgs ==
  {[bucket |-> "B1", prefix |-> pr, suffix |-> E, dst_root |-> <<"d">>,
    keep_structure |-> ks, overwrite |-> ow, dry_run |-> dr, skip_if |-> sk,
    preserve_mtime |-> pm, include |-> << >>, exclude |-> ex, max_workers |-> mw] :
     pr \in {E, P_a}, ks \in BOOLEAN, ow \in BOOLEAN, dr \in BOOLEAN,
     sk \in {"none", "size"}, pm \in BOOLEAN,
     ex \in {<< >>, <<P_c \o G_star>>}, mw \in WorkerCounts}

\* The local directory before the call is empty or holds d/x of either size.
InitDownload ==
  /\ op = "download"
  /\ args \in DownloadArgs
  /\ store \in {[b \in Buckets |-> IF b = "B1" THEN [k \in K |-> 1] ELSE << >>] :
                  K \in {K \in SUBSET DownloadKeyUniverse : Cardinality(K) <= MaxObjects}}
  /\ files \in {<< >>} \cup {[q \in {PathJoin(<<"d">>, S_x)} |-> c] : c \in {1, 3}}
  /\ run = 1 /\ prev = NoPrev /\ variant = "scan" /\ store0 = store
  /\ Fresh

NextDownload ==
  \/ DownloadList \/ DownloadReturn \/ CmdDownload
  \/ \E p \in DOMAIN futs : WorkerStart(p) \/ WorkerDo(p) \/ WorkerWrite(p) \/ DownloadDrain(p)

SpecDownload == InitDownload /\ [][NextDownload]_vars

\* ------------------------------------------------------------------ properties
\* The keys sent in batch-delete requests so far.
DeleteRequested == UNION {Range(deleteCalls[i]) : i \in DOMAIN deleteCalls}

\* No copy and no batch-delete request has reached the store.
NoMutatingCall == copyCalls = << >> /\ deleteCalls = << >>

\* The pair's copy completed successfully.
CopySucceeded(k) == \E p \in DOMAIN futs : p[1] = k /\ futs[p] = "ok"

\* Two prefixes are equal or one is nested inside the other.
Overlap(a, b) == StartsWith(a, b) \/ StartsWith(b, a)

\* The relative keys of a population: the keys under the prefix with the prefix stripped.
RelativeKeys(st, b, prefix) ==
  {SubSeq(k, Len(prefix) + 1, Len(k)) : k \in {k \in DOMAIN st[b] : StartsWith(k, prefix)}}

\* C1: in a non-dry-run move_by_mask every key sent in a batch-delete request and every
\* key reported in deleted_source is the source key of a pair whose copy succeeded; a key
\* whose copy failed is never sent for deletion.
C1_MoveDeletesOnlyCopied ==
  (op = "move" /\ ~args.dry_run) =>
    /\ \A k \in DeleteRequested : CopySucceeded(k)
    /\ \A k \in Range(to_delete) : CopySucceeded(k)
    /\ \A k \in Range(deleted) : CopySucceeded(k)
    /\ result.kind = "return" => \A k \in Range(result.deleted_source) : CopySucceeded(k)

\* A non-dry-run move has returned after a copy failed, and the failed key was left alone.
C1_Witness ==
  /\ op = "move" /\ ~args.dry_run /\ pc = "done"
  /\ \E p \in DOMAIN futs :
       /\ futs[p] # "ok"
       /\ p[1] \notin DeleteRequested
       /\ p[1] \notin Range(result.deleted_source)
       /\ p[1] \in Keys(args.source_bucket)

\* C2: in Move and in Sync no batch-delete request is issued while a copy submitted by the
\* same invocation is pending or running: once a delete phase has its key list or has sent
\* a request, every submitted copy has succeeded or failed.
C2_PoolDrainedBeforeDelete ==
  (op \in {"move", "sync"} /\ (deleteCalls # << >> \/ pc = "deleting")) =>
    \A p \in DOMAIN futs : FutDone(p) /\ p \in drained

\* A sync has sent a batch-delete request after a copy phase of two copies, one successful.
C2_Witness ==
  /\ op = "sync" /\ deleteCalls # << >>
  /\ Cardinality(DOMAIN futs) >= 2
  /\ \E p \in DOMAIN futs : futs[p] = "ok"

\* C3: sync_prefix with compare_mode 'name' issues a copy for exactly the relative keys of
\* the source that the destination lacks (none for a key on both sides), and with
\* delete_extra hands exactly the destination keys whose relative key the source lacks to
\* the delete loop; a run that returns has sent exactly those keys in its batches.
C3_SyncNameSelectsDifference ==
  (op = "sync" /\ args.compare_mode = "name" /\ ~args.dry_run) =>
    LET S == RelativeKeys(store0, args.source_bucket, args.prefix)
        D == RelativeKeys(store0, args.target_bucket, args.prefix_dst)
        expectCopy == {<<args.prefix \o r, args.prefix_dst \o r>> : r \in S \ D}
        expectDelete == {args.prefix_dst \o r : r \in D \ S}
    IN /\ DOMAIN copyCalls \subseteq expectCopy
       /\ pc \in {"copy_wait", "delete", "deleting", "return", "done"} => DOMAIN futs = expectCopy
       /\ pc \in {"delete", "deleting", "return", "done"} => DOMAIN copyCalls = expectCopy
       /\ DeleteRequested \subseteq expectDelete
       /\ (args.delete_extra /\ pc \in {"deleting", "return", "done"}) =>
            Range(to_delete) = expectDelete
       /\ (args.delete_extra /\ pc \in {"return", "done"}) => DeleteRequested = expectDelete

\* A name-mode sync returned after copying a source-only key and deleting an extra key.
C3_Witness ==
  /\ op = "sync" /\ args.compare_mode = "name" /\ ~args.dry_run /\ args.delete_extra
  /\ pc = "done"
  /\ copyCalls # << >> /\ deleteCalls # << >>

\* C4: a dry-run sync_prefix or move_by_mask sends no copy and no batch-delete request,
\* and the store's population is what it was when the invocation started.
C4_DryRunMutatesNothing ==
  (op \in {"sync", "move"} /\ args.dry_run) => (NoMutatingCall /\ store = store0 /\ futs = << >>)

\* A dry-run sync returned a plan that has both a copy and a deletion in it.
C4_Witness ==
  /\ op = "sync" /\ args.dry_run /\ pc = "done"
  /\ result.copied # << >> /\ result.deleted # << >>

\* C5: for the same store and arguments, the planned-item counts a dry run reports (items
\* in copied/moved and deleted/deleted_source, stats to_copy, to_delete, total) equal the
\* number of copies the real run submits and the number of keys it sends for deletion;
\* metadata lookups succeed in both runs.
C5_DryRunCountsMatchRealRun ==
  (run = 2 /\ prev.kind = "run" /\ prev.dry_run /\ prev.heads_ok /\ HeadsOk /\ pc = "done") =>
    LET nCopy == Cardinality(DOMAIN futs)
        nDelete == Cardinality(DeleteRequested)
    IN IF op = "sync"
       THEN /\ Len(prev.result.copied) = nCopy
            /\ prev.result.stats.to_copy = nCopy
            /\ Len(prev.result.deleted) = nDelete
            /\ prev.result.stats.to_delete = nDelete
       ELSE /\ Len(prev.result.moved) = nCopy
            /\ prev.result.stats.total = nCopy
            /\ Len(prev.result.deleted_source) = nDelete

\* The second run follows a real first run of sync_prefix with delete_extra whose store
\* calls all succeeded.
SecondSyncAfterCleanRun ==
  /\ op = "sync" /\ run = 2 /\ prev.kind = "run"
  /\ ~prev.dry_run /\ prev.heads_ok /\ args.delete_extra

\* The invocation has planned and sent nothing to copy and nothing to delete.
NothingToDo ==
  /\ to_copy_rel = {} /\ futs = << >> /\ to_delete = << >>
  /\ NoMutatingCall
  /\ result.kind = "return" => (result.copied = << >> /\ result.deleted = << >>)

C7_MoveCompletesWhenStoreAccepts ==
  (op = "move" /\ ~args.dry_run /\ pc = "done"
     /\ (\A p \in DOMAIN futs : futs[p] # "S3Error")
     /\ (\A i \in DOMAIN errors_delete : FALSE)) =>
    /\ Range(result.moved) = pairs
    /\ Range(result.deleted_source) = {p[1] : p \in pairs}
    /\ result.errors_copy = << >>
    /\ result.errors_delete = << >>

\* C8: when a listing request of an orchestration call fails, the error leaves the call
\* and the call has sent no copy and no batch-delete request.
C8_ListingFailureBeforeMutation ==
  /\ (result.kind = "raise" /\ result.exc = "ListError") => NoMutatingCall
  /\ pc = "cp_abort" => NoMutatingCall

\* C9: sync_prefix with equal buckets and prefixes that are equal or nested raises the
\* configuration error first: no listing, HEAD, copy or delete request is ever sent.
C9_SyncOverlapGuard ==
  (op = "sync" /\ args.source_bucket = args.target_bucket /\ Overlap(args.prefix, args.prefix_dst)) =>
    /\ pc \in {"start", "raised", "exited"}
    /\ pc \in {"raised", "exited"} => result = Raised("ValueError")
    /\ listCalls = 0 /\ headCalls = 0 /\ NoMutatingCall

\* A sync between nested prefixes of a populated bucket was refused.
C9_Witness ==
  /\ op = "sync" /\ pc = "raised" /\ result = Raised("ValueError")
  /\ args.source_bucket = args.target_bucket
  /\ args.prefix # args.prefix_dst /\ Overlap(args.prefix, args.prefix_dst)
  /\ Keys(args.source_bucket) # {}

\* The prefixes an orchestrator reads from and writes to lie in one bucket and overlap.
OverlappingCall ==
  \/ /\ op \in {"sync", "move", "copy_by_mask"}
     /\ args.source_bucket = args.target_bucket
     /\ Overlap(args.prefix, args.prefix_dst)
  \/ /\ op = "cca" /\ todo # << >>
     /\ Overlap(CpSrcPrefix, CpDstPrefix)

\* C10: every orchestrator given overlapping source and destination prefixes in one
\* bucket fails with the configuration error before any listing, copy or delete request.
C10_EveryOrchestratorGuardsOverlap ==
  OverlappingCall =>
    /\ listCalls = 0 /\ NoMutatingCall
    /\ pc \in {"start", "raised", "exited"}
    /\ pc \in {"raised", "exited"} => result = Raised("ValueError")

\* The copy phase of a non-dry-run move_by_mask or sync_prefix has ended.
CopyPhaseOver ==
  /\ op \in {"move", "sync"} /\ ~args.dry_run
  /\ futs # << >>
  /\ pc \in {"delete", "deleting", "return", "done"}

\* C11: in the parallel copy executor one pair's failure cancels no other pair: every
\* submitted pair is attempted once and ends either in the succeeded list or as one entry
\* of the errors list, so len(succeeded) + len(errors) is the number of submitted pairs.
C11_EveryPairSucceededOrFailed ==
  CopyPhaseOver =>
    /\ \A p \in DOMAIN futs : FutDone(p) /\ p \in drained
    /\ \A p \in DOMAIN copyCalls : copyCalls[p] = 1
    /\ Len(copied) + Len(errors_copy) = Cardinality(DOMAIN futs)
    /\ Len(errors_copy) = Cardinality({p \in DOMAIN futs : futs[p] # "ok"})

\* C12: no orchestrator raises because one copy call or one batch-delete call failed: the
\* failure is recorded in the returned errors and the call returns its summary.
C12_NoRaiseOnItemFailure ==
  /\ result.kind = "raise" => result.exc \notin {"S3Error", "ClientError", "TransportError"}
  /\ (pc = "done" /\ op \in {"sync", "move"} /\ ~args.dry_run) =>
       Len(result.errors_copy) = Cardinality({p \in DOMAIN futs : futs[p] # "ok"})

\* C13: in sync_prefix's non-dry-run result a relative key is in copied only if its copy
\* call succeeded; a key whose copy failed is in errors_copy and not in copied.
C13_SyncCopiedOnlySucceeded ==
  (op = "sync" /\ ~args.dry_run /\ pc = "done") =>
    /\ \A r \in Range(result.copied) : futs[SyncPair(r)] = "ok"
    /\ Len(result.errors_copy) = Cardinality({p \in DOMAIN futs : futs[p] # "ok"})

\* ceil(n / b)
CeilDiv(n, b) == (n + b - 1) \div b

\* The batches sent so far, one after the other.
RECURSIVE Concat(_)
Concat(seqs) == IF seqs = << >> THEN << >> ELSE Head(seqs) \o Concat(Tail(seqs))

C15_BatchAtMostLimit ==
  (op \in {"move", "sync"} /\ deleteCalls # << >>) =>
    /\ BatchSize <= DeleteLimit
    /\ \A i \in DOMAIN deleteCalls : Len(deleteCalls[i]) <= DeleteLimit

\* C16: when a whole batch-delete call raises, the orchestrator records one failure entry
\* for every key of the batch (so every key sent so far is accounted for as deleted or as
\* failed), does not raise, and goes on with the following batches.
C16_BatchFailureRecordedPerKey ==
  (op \in {"move", "sync"} /\ resp.kind = "raise") =>
    /\ pc # "raised" /\ result.kind # "raise"
    /\ Len(deleted) + Len(errors_delete) = di

\* C17: when a batch-delete call returns a partial result, every per-key error of the
\* response yields one errors_delete entry that keeps its key, code and message, and every
\* key reported deleted is appended to deleted; in move_by_mask and in sync_prefix.
C17_PartialResultPreserved ==
  (op \in {"move", "sync"} /\ resp.kind = "response") =>
    LET n == Len(resp.Errors)
        m == Len(errors_delete)
        d == Len(resp.Deleted)
        l == Len(deleted)
    IN /\ m >= n /\ l >= d
       /\ \A i \in 1..n :
            errors_delete[m - n + i] = <<resp.Errors[i].Key, resp.Errors[i].Code, resp.Errors[i].Message>>
       /\ \A i \in 1..d : deleted[l - d + i] = resp.Deleted[i]

\* C18: in sync_prefix with compare_mode 'etag' or 'size' a relative key present on both
\* sides is in the copy set iff the compared field differs, metadata that could not be
\* fetched counting as None (missing on both sides is equal, missing on one side differs);
\* a key present only in the source is always in the copy set.
C18_DeepCompareCopiesIffDiffers ==
  (op = "sync" /\ args.compare_mode \in {"etag", "size"}
     /\ pc \in {"copy", "copy_wait", "delete", "deleting", "return", "done"}) =>
    LET S == RelativeKeys(store0, args.source_bucket, args.prefix)
        D == RelativeKeys(store0, args.target_bucket, args.prefix_dst)
        f == IF args.compare_mode = "etag" THEN 1 ELSE 2
        Real(b, k) == <<ETagOf(store0[b][k]), SizeOf(store0[b][k])>>
    IN /\ to_copy_rel \subseteq S
       /\ S \ D \subseteq to_copy_rel
       /\ \A r \in S \cap D :
            LET sk == args.prefix \o r
                dk == args.prefix_dst \o r
            IN /\ src_head[sk] \in {NoMeta, Real(args.source_bucket, sk)}
               /\ dst_head[dk] \in {NoMeta, Real(args.target_bucket, dk)}
               /\ r \in to_copy_rel <=> src_head[sk][f] # dst_head[dk][f]

\* A deep-compare sync returned without copying a key whose metadata could be fetched on
\* neither side.
C18_Witness ==
  /\ op = "sync" /\ args.compare_mode \in {"etag", "size"} /\ pc = "done"
  /\ \E r \in src_rel \cap dst_rel :
       /\ src_head[Reprefix(args.prefix, r)] = NoMeta
       /\ dst_head[Reprefix(args.prefix_dst, r)] = NoMeta
       /\ r \notin to_copy_rel

\* C19: sync_prefix with delete_extra false sends no batch-delete request, returns an
\* empty deleted list and removes no destination object, whatever extras the destination
\* holds.
C19_NoDeleteWithoutDeleteExtra ==
  (op = "sync" /\ ~args.delete_extra) =>
    /\ deleteCalls = << >> /\ to_delete = << >> /\ deleted = << >>
    /\ result.kind = "return" => result.deleted = << >>
    /\ DOMAIN store0[args.target_bucket] \subseteq Keys(args.target_bucket)

\* A sync without delete_extra returned and left the destination's extra keys in place.
C19_Witness ==
  /\ op = "sync" /\ ~args.delete_extra /\ ~args.dry_run /\ pc = "done"
  /\ RelativeKeys(store0, args.target_bucket, args.prefix_dst)
       \ RelativeKeys(store0, args.source_bucket, args.prefix) # {}

\* C20: the matcher built by compile_patterns rejects a name that matches an exclude glob
\* even when it matches an include glob; otherwise it accepts the name iff it matches at
\* least one include glob, an absent or empty include list behaving as the single glob '*',
\* which matches every name.
C20_ExcludeBeforeInclude ==
  (op = "compile_patterns" /\ pc = "done") =>
    LET incl == IF args.includes_given THEN Range(args.includes) ELSE {}
        excl == IF args.excludes_given THEN Range(args.excludes) ELSE {}
        hit(pats) == \E g \in pats : fnmatch(args.name, g, args.platform)
    IN /\ hit(excl) => result.value = FALSE
       /\ ~hit(excl) => (result.value <=> (IF incl = {} THEN TRUE ELSE hit(incl)))
       /\ fnmatch(args.name, G_star, args.platform)

\* The matcher rejected tmp/x.jpg under include *.jpg and exclude tmp/*.
C20_Witness ==
  /\ op = "compile_patterns" /\ pc = "done"
  /\ args.name = N_tmp_x_jpg
  /\ args.includes_given /\ args.includes = <<G_jpg>>
  /\ args.excludes_given /\ args.excludes = <<G_tmp>>
  /\ result.value = FALSE

\* The destination root of a child of kind "common" or "addon".
DstRootOf(kind) ==
  IF kind = "common" THEN args.common_dst_root_prefix ELSE args.addon_dst_root_prefix

\* C21: copy_common_and_addon_from_roots takes common = src names /\ ref names and
\* addon = src names \ ref names; the summary has exactly one entry per name of each,
\* common_count and addon_count are their sizes, and every child is copied under the
\* destination root of its kind.
C21_CommonAddonSplit ==
  (op = "cca" /\ pc = "done") =>
    LET common == src_names \cap ref_names
        addon == src_names \ ref_names
        children == {<<"common", n>> : n \in common} \cup {<<"addon", n>> : n \in addon}
        SrcOf(c) == args.src_root_prefix \o c[2] \o <<"/">>
        DstOf(c, k) == DstRootOf(c[1]) \o c[2] \o <<"/">> \o DropFirst(k, Len(SrcOf(c)))
    IN /\ DOMAIN result.summary = children
       /\ result.common_count = Cardinality(common)
       /\ result.addon_count = Cardinality(addon)
       /\ common \cup addon = src_names /\ common \cap addon = {}
       /\ \A p \in DOMAIN copyCalls :
            \E c \in children : StartsWith(p[1], SrcOf(c)) /\ p[2] = DstOf(c, p[1])
       /\ \A c \in children :
            \A k \in {k \in DOMAIN store0[args.bucket] : StartsWith(k, SrcOf(c))} :
              <<k, DstOf(c, k)>> \in DOMAIN copyCalls

\* The call returned a summary with a common child and an addon child, both copied.
C21_Witness ==
  /\ op = "cca" /\ pc = "done"
  /\ src_names \cap ref_names # {} /\ src_names \ ref_names # {}
  /\ \E c \in DOMAIN result.summary : c[1] = "common" /\ result.summary[c].copied = 1
  /\ \E c \in DOMAIN result.summary : c[1] = "addon" /\ result.summary[c].copied = 1

\* C22: in copy_common_and_addon_from_roots a failure while one child is processed (a
\* failed copy, a failed listing of the child's subtree, a rejected prefix pair) does not
\* stop the others: the call does not raise while another child still waits behind the
\* one in hand, so every name gets its entry in the returned summary.
C22_ChildFailureDoesNotBlockOthers ==
  (op = "cca" /\ Len(todo) >= 2) =>
    /\ pc \notin {"cp_abort", "raised"}
    /\ result.kind # "raise"

\* The child names of a root: the leading path segment of every key under the root with
\* the root stripped.
LeadingSegments(st, b, root) ==
  {FirstSegment(DropFirst(k, Len(root))) : k \in {k \in DOMAIN st[b] : StartsWith(k, root)}}
    \ {<< >>}

\* C25: the child-name lister returns exactly the leading path segments of the keys under
\* the root prefix with the root stripped, whatever the store groups by delimiter.
C25_ListerReturnsLeadingSegments ==
  (op = "cca" /\ pc \in {"cca_list_ref", "cp_guard", "cp_list", "copy_wait", "done"}) =>
    src_names = LeadingSegments(store0, args.bucket, args.src_root_prefix)

\* C24: during a copy phase at most max_workers copy calls are in flight, and every pair
\* is sent to the store at most once (no second copy of a pair, no retry).
C24_AtMostMaxWorkersInFlight ==
  (op \in {"move", "sync", "cca"}) =>
    /\ Cardinality(Running) <= args.max_workers
    /\ \A p \in DOMAIN copyCalls : copyCalls[p] = 1

\* Two workers of a pool of two have each taken a pair and not yet sent its copy.
C24_Witness ==
  /\ op \in {"sync", "cca"} /\ args.max_workers = 2
  /\ Cardinality(Running) = 2
  /\ \A p \in Running : p \notin DOMAIN copyCalls

\* What the coordinating thread has recorded when it leaves the copy phase.
Recorded ==
  CASE op = "move" -> Len(copied) + Len(errors_copy) = Cardinality(DOMAIN futs)
    [] op = "sync" -> Len(errors_copy) = Cardinality({p \in DOMAIN futs : futs[p] # "ok"})
    [] op = "cca" -> oks + errs = Cardinality(DOMAIN futs)
    [] OTHER -> TRUE

\* C29: a worker's step leaves the succeeded list, the errors list and the counters as
\* they are; only the coordinating thread's drain of a finished future changes them, and
\* when the copy phase ends every pair has been recorded exactly once.
C29_OnlyCoordinatorRecords ==
  [][/\ (\E p \in DOMAIN futs : WorkerStart(p) \/ WorkerCopy(p)) =>
          UNCHANGED <<copied, errors_copy, oks, errs>>
     /\ (pc = "copy_wait" /\ pc' # "copy_wait") => Recorded]_vars

\* One worker has failed and is not yet drained while another worker is running: nothing
\* is recorded yet.
C29_Witness ==
  /\ pc = "copy_wait" /\ errors_copy = << >> /\ errs = 0
  /\ \E p, q \in DOMAIN futs :
       /\ futs[p] \in {"S3Error", "TypeError"} /\ p \notin drained
       /\ futs[q] = "running"

\* The source keys copy_by_mask selects: those with the prefix and the suffix at entry.
CbmSelected ==
  {k \in DOMAIN store0[args.source_bucket] :
     StartsWith(k, args.prefix) /\ EndsWith(k, args.suffix)}

\* C26: copy_by_mask sends one copy for every source key with the prefix and the suffix,
\* to prefix_dst + (key without prefix); it sends no HEAD and no delete and lists once, the
\* source only; it returns those source keys.
C26_CopyByMaskCopiesEveryMatch ==
  (op = "copy_by_mask" /\ pc = "done") =>
    /\ DOMAIN copyCalls =
         {<<k, args.prefix_dst \o DropFirst(k, Len(args.prefix))>> : k \in CbmSelected}
    /\ \A p \in DOMAIN copyCalls : copyCalls[p] = 1
    /\ headCalls = 0 /\ deleteCalls = << >> /\ listCalls = 1
    /\ Range(result.keys) = CbmSelected
    /\ Len(result.keys) = Cardinality(CbmSelected)

\* copy_by_mask returned the one key a non-empty prefix and suffix select, and left
\* another source key aside.
C26_Witness ==
  /\ op = "copy_by_mask" /\ pc = "done"
  /\ args.prefix # E /\ args.suffix # E
  /\ Len(result.keys) = 1
  /\ \E k \in DOMAIN store0[args.source_bucket] : k \notin CbmSelected

\* C28: for every listed key k under prefix p, p + relativize(k, p) = k; the source keys
\* of the transfer pairs are listed keys (all of them in move_by_mask); relativization is
\* injective on the listed keys, and two pairs with one destination key have one source.
C28_RelativizeRoundTrip ==
  (op \in {"move", "sync"}) =>
    /\ \A k \in src_keys :
         \A r \in relativize_keys({k}, args.prefix) : Reprefix(args.prefix, r) = k
    /\ Cardinality(relativize_keys(src_keys, args.prefix)) = Cardinality(src_keys)
    /\ {p[1] : p \in pairs} \subseteq src_keys
    /\ (op = "move" /\ pc # "start") => {p[1] : p \in pairs} = src_keys
    /\ \A p, q \in pairs : p[2] = q[2] => p[1] = q[1]

\* Two keys are listed under a non-empty prefix and both are planned as pairs.
C28_Witness ==
  /\ op \in {"move", "sync"}
  /\ args.prefix # E
  /\ Cardinality(src_keys) = 2
  /\ {p[1] : p \in pairs} = src_keys

\* C30: sync_prefix leaves the source population as it found it: every object under the
\* source prefix keeps its content and none appears there; every copy writes a key under
\* prefix_dst, every delete names a key that was under prefix_dst in the target bucket at
\* entry and whose relative key the source lacks, and neither names a key of the source
\* population.
C30_SyncLeavesSourceAlone ==
  (op = "sync") =>
    LET sb == args.source_bucket
        tb == args.target_bucket
        InSource(k) == sb = tb /\ StartsWith(k, args.prefix)
        S0 == {k \in DOMAIN store0[sb] : StartsWith(k, args.prefix)}
    IN /\ {k \in DOMAIN store[sb] : StartsWith(k, args.prefix)} = S0
       /\ \A k \in S0 : store[sb][k] = store0[sb][k]
       /\ \A p \in DOMAIN copyCalls :
            StartsWith(p[2], args.prefix_dst) /\ ~InSource(p[2])
       /\ \A k \in DeleteRequested :
            /\ k \in DOMAIN store0[tb] /\ StartsWith(k, args.prefix_dst)
            /\ DropFirst(k, Len(args.prefix_dst)) \notin relativize_keys(S0, args.prefix)
            /\ ~InSource(k)

\* A sync inside one bucket, between two prefixes, has copied a key and deleted an extra.
C30_Witness ==
  /\ op = "sync" /\ pc = "done" /\ ~args.dry_run
  /\ args.source_bucket = args.target_bucket
  /\ \E p \in DOMAIN copyCalls : futs[p] = "ok"
  /\ result.deleted # << >>

C31_GuardAcceptsDisjointPrefixes ==
  (/\ op = "sync"
   /\ args.source_bucket = args.target_bucket
   /\ ~Overlap(args.prefix, args.prefix_dst)) =>
    ~(pc = "raised" /\ result = Raised("ValueError") /\ listCalls = 0)

\* C32: in download_by_mask no two planned pairs share a local destination path, and no
\* two workers are writing the same local file at the same time, with keep_structure true
\* and false.
C32_NoSharedLocalPath ==
  (op = "download") =>
    /\ \A p, q \in pairs : p[2] = q[2] => p = q
    /\ \A p, q \in DOMAIN futs :
         (futs[p] = "writing" /\ futs[q] = "writing" /\ p[2] = q[2]) => p = q

\* The error lists of a returned result are empty.
NoErrorsReturned ==
  IF op = "download" THEN result.errors = << >>
  ELSE result.errors_copy = << >> /\ result.errors_delete = << >>

\* C33: a CLI command (sync, move, download) whose operation returned a non-empty error
\* list ends with a non-zero exit status, and one whose operation returned no errors ends
\* with status zero.
C33_ExitStatusReflectsErrors ==
  (pc = "exited" /\ op \in {"sync", "move", "download"} /\ result.kind = "return") =>
    (exit_status = 0 <=> NoErrorsReturned)

====
